---- MODULE Spec2Model ----
(***************************************************************************)
(* Model of streamlit_app.py: a Streamlit script that is executed from top *)
(* to bottom on every widget change.  One script run loads the dataset,    *)
(* reads the selected index, predicts a score, resolves the coordinates    *)
(* to an rsID through a process-wide memoised lookup, fetches the variant  *)
(* annotation and displays the results.                                    *)
(*                                                                         *)
(* Conventions                                                             *)
(*   - A Python value that may be None (or a spreadsheet cell that may be  *)
(*     null) is a set with at most one element: None is {}, a value v is   *)
(*     {v}.                                                                *)
(*   - The strings the recommendation compares (impact, clinical           *)
(*     significance) are sequences of one-character strings, so that       *)
(*     str.lower() is an operation on characters.                          *)
(*   - Scores are fixed-point numbers in units of 0.001.                   *)
(***************************************************************************)
EXTENDS Integers, Sequences, FiniteSets, TLC

VARIABLES
    pc,             \* position of the current script run
    file,           \* rows of mmc4.xlsx
    model,          \* the scoring function stored in model.pkl
    df,             \* the dataframe after dropna
    sample_idx,     \* value of the number_input widget
    sample,         \* df.iloc[sample_idx]
    X,              \* the feature vector
    pred_score,     \* model.predict(X)[0]
    risk_label,     \* label_risk(pred_score)
    rsid,           \* result of map_to_rsid
    variant,        \* result of get_variant_info, or None
    rec_box,        \* which box the recommendation section shows
    recommendation, \* the text shown in that box
    cache,          \* st.cache_data store of map_to_rsid
    runs,           \* number of script runs started in this process
    calls,          \* per-run counters of calls and HTTP GETs
    steps,          \* per-run list of the pipeline steps executed
    gets,           \* number of lookup GETs issued for each coordinate key
    firstRes,       \* first value map_to_rsid returned for each key
    firstShown,     \* first set of derived values displayed for each record
    last_lookup,    \* response of this run's coordinate lookup, if one was made
    last_vep        \* response of this run's annotation request, if one was made

vars == <<pc, file, model, df, sample_idx, sample, X, pred_score, risk_label,
          rsid, variant, rec_box, recommendation, cache, runs, calls, steps,
          gets, firstRes, firstShown, last_lookup, last_vep>>

-----------------------------------------------------------------------------
(* Bounds *)

MaxRows == 2
MaxSelections == 2
MaxScore == 12

-----------------------------------------------------------------------------
(* Optional values *)

None == {}
Some(v) == {v}
Val(o) == CHOOSE v \in o : TRUE
Opt(S) == {None} \cup {Some(v) : v \in S}
Get(o, default) == IF o = None THEN default ELSE Val(o)

-----------------------------------------------------------------------------
(* Character strings *)

LowerAlpha == <<"a","b","c","d","e","f","g","h","i","j","k","l","m",
                "n","o","p","q","r","s","t","u","v","w","x","y","z">>
UpperAlpha == <<"A","B","C","D","E","F","G","H","I","J","K","L","M",
                "N","O","P","Q","R","S","T","U","V","W","X","Y","Z">>

LowerChar(c) ==
    IF \E i \in 1..26 : UpperAlpha[i] = c
    THEN LowerAlpha[CHOOSE i \in 1..26 : UpperAlpha[i] = c]
    ELSE c

UpperChar(c) ==
    IF \E i \in 1..26 : LowerAlpha[i] = c
    THEN UpperAlpha[CHOOSE i \in 1..26 : LowerAlpha[i] = c]
    ELSE c

Lower(s) == [i \in 1..Len(s) |-> LowerChar(s[i])]
Upper(s) == [i \in 1..Len(s) |-> UpperChar(s[i])]
Capitalize(s) == [i \in 1..Len(s) |-> IF i = 1 THEN UpperChar(s[i]) ELSE LowerChar(s[i])]

S_HIGH == <<"H","I","G","H">>
S_MODERATE == <<"M","O","D","E","R","A","T","E">>
S_LOW == <<"L","O","W">>
S_MODIFIER == <<"M","O","D","I","F","I","E","R">>
S_Unknown == <<"U","n","k","n","o","w","n">>
S_pathogenic == <<"p","a","t","h","o","g","e","n","i","c">>
S_likely_pathogenic == <<"l","i","k","e","l","y","_","p","a","t","h","o","g","e","n","i","c">>
S_benign == <<"b","e","n","i","g","n">>
S_Not_reported == <<"N","o","t"," ","r","e","p","o","r","t","e","d">>
S_empty == <<>>

-----------------------------------------------------------------------------
(* Dataset: lines 7-8 *)

Columns == {"Chromosome", "Positionb", "EAFc", "Overall Breast Cancerd",
            "ER-positivee", "ER-negativef"}

Row(chrom, pos, eaf, overall, erpos, erneg) ==
    ("Chromosome" :> chrom) @@ ("Positionb" :> pos) @@ ("EAFc" :> eaf) @@
    ("Overall Breast Cancerd" :> overall) @@ ("ER-positivee" :> erpos) @@
    ("ER-negativef" :> erneg)

\* Complete rows: two share their coordinates, one lies elsewhere.
BaseRows == { Row(Some(1), Some(100), Some(0), Some(1), Some(1), Some(0)),
              Row(Some(1), Some(100), Some(1), Some(1), Some(1), Some(0)),
              Row(Some(1), Some(200), Some(0), Some(1), Some(1), Some(0)) }

\* The same rows with one cell left empty in the spreadsheet.
RowDomain ==
    BaseRows \cup
    { [Row(Some(1), Some(100), Some(0), Some(1), Some(1), Some(0)) EXCEPT ![c] = None] :
        c \in Columns }

Files == UNION { [1..n -> RowDomain] : n \in 1..MaxRows }

DropSubset == {"Chromosome", "Positionb", "EAFc", "Overall Breast Cancerd"}

dropna(rows, subset) ==
    SelectSeq(rows, LAMBDA r : \A c \in subset : r[c] # None)

-----------------------------------------------------------------------------
(* Prediction: lines 31-41 *)

FeatureColumns == <<"Chromosome", "Positionb", "EAFc", "ER-positivee", "ER-negativef">>

Features(row) == [i \in 1..Len(FeatureColumns) |-> row[FeatureColumns[i]]]

\* model.pkl is opaque: a scoring function fixed for the process.  The family
\* modelled is intercept + allele frequency; whether the estimator rejects a
\* feature vector holding NaN depends on the estimator.
Models == [intercept : {0, 9}, nan_ok : BOOLEAN]

predict(m, x) ==
    IF (\E i \in 1..Len(x) : x[i] = None) /\ ~m.nan_ok
    THEN [raised |-> TRUE, value |-> None]
    ELSE [raised |-> FALSE, value |-> Some(m.intercept + Get(x[3], 0))]

HighThreshold == 10

label_risk_strict(score) ==
    IF score > HighThreshold THEN "High"
    ELSE IF score > 0 THEN "Moderate"
    ELSE "Low"

label_risk(score) ==
    IF score >= HighThreshold THEN "High"
    ELSE IF score > 0 THEN "Moderate"
    ELSE "Low"

-----------------------------------------------------------------------------
(* HTTP responses.  exc names the exception requests.get raised ("" when it *)
(* returned); json is None when r.json() raises.  A body is a JSON array   *)
(* of items or a non-empty JSON object such as {"error": ...}.             *)

Exc(kind) == [exc |-> kind, status |-> 0, json |-> None]
Http(status, json) == [exc |-> "", status |-> status, json |-> json]
Arr(items) == [type |-> "array", items |-> items]
Obj == [type |-> "object", items |-> <<>>]

JsonTruthy(body) == body.type = "object" \/ body.items # <<>>

Id(o) == [id |-> o]

LookupResponses ==
    { Exc("ConnectionError"), Exc("Timeout"),
      Http(500, None),
      Http(500, Some(Arr(<<Id(Some("rs1"))>>))),
      Http(200, None),
      Http(200, Some(Arr(<<>>))),
      Http(200, Some(Obj)),
      Http(200, Some(Arr(<<Id(None)>>))),
      Http(200, Some(Arr(<<Id(Some(""))>>))),
      Http(200, Some(Arr(<<Id(Some("rs1"))>>))),
      Http(200, Some(Arr(<<Id(Some("rs1")), Id(Some("rs2"))>>))) }

\* Line 46: int(chrom) and int(pos) raise ValueError on NaN, before the try block.
UrlRaises(chrom, pos) == chrom = None \/ pos = None

\* Lines 45-54
map_to_rsid_raising(chrom, pos, resp) ==
    IF UrlRaises(chrom, pos) THEN [raised |-> TRUE, value |-> None]
    ELSE IF resp.exc # "" THEN [raised |-> TRUE, value |-> None]
    ELSE IF resp.status = 200 /\ resp.json # None /\ JsonTruthy(Val(resp.json))
         THEN LET body == Val(resp.json) IN
              IF body.type = "array" /\ body.items[1].id # None
              THEN [raised |-> FALSE, value |-> body.items[1].id]
              ELSE [raised |-> TRUE, value |-> None]
    ELSE IF resp.status = 200 /\ resp.json = None THEN [raised |-> TRUE, value |-> None]
    ELSE [raised |-> FALSE, value |-> None]

map_to_rsid(chrom, pos, resp) ==
    IF UrlRaises(chrom, pos) THEN [raised |-> TRUE, value |-> None]
    ELSE IF resp.exc # "" THEN [raised |-> FALSE, value |-> None]
    ELSE IF resp.status = 200 /\ resp.json # None /\ JsonTruthy(Val(resp.json))
         THEN LET body == Val(resp.json) IN
              IF body.type = "array" /\ body.items[1].id # None
              THEN [raised |-> FALSE, value |-> body.items[1].id]
              ELSE [raised |-> FALSE, value |-> None]
    ELSE [raised |-> FALSE, value |-> None]

\* f"{rsid}" in the annotation URL and in the record
Format(id) == IF id = None THEN "None" ELSE Val(id)

Tc(gene, impact, terms) ==
    [gene_symbol |-> gene, impact |-> impact, consequence_terms |-> terms]
EmptyTc == Tc(None, None, None)
VepItem(tcs, cs) == [transcript_consequences |-> tcs, clinical_significance |-> cs]

\* Lines 59-76.  Everything after the URL is inside the try block; an index
\* into an empty list raises IndexError, which the bare except turns into None.
get_variant_info(id, resp) ==
    IF resp.exc # "" THEN [raised |-> FALSE, value |-> None]
    ELSE IF resp.status # 200 THEN [raised |-> FALSE, value |-> None]
    ELSE IF resp.json = None THEN [raised |-> FALSE, value |-> None]
    ELSE LET data == Val(resp.json) IN
         IF data.type # "array" \/ data.items = <<>> THEN [raised |-> FALSE, value |-> None]
         ELSE LET tcs == Get(data.items[1].transcript_consequences, <<EmptyTc>>)
                  cs  == Get(data.items[1].clinical_significance, <<Some(S_Not_reported)>>)
              IN IF tcs = <<>> THEN [raised |-> FALSE, value |-> None]
                 ELSE LET tc    == tcs[1]
                          terms == Get(tc.consequence_terms, <<"Unknown">>)
                      IN IF terms = <<>> \/ cs = <<>> THEN [raised |-> FALSE, value |-> None]
                         ELSE [raised |-> FALSE,
                               value |-> Some([rsID |-> Format(id),
                                               Gene |-> Get(tc.gene_symbol, "Unknown"),
                                               Impact |-> Get(tc.impact, S_Unknown),
                                               Effect |-> terms[1],
                                               ClinSig |-> cs[1]])]

-----------------------------------------------------------------------------
(* Recommendation: lines 107-131 *)

HighText == "This variant is classified as high impact or clinically pathogenic."
ModerateText == "This variant is predicted to have moderate functional impact."
LowText == "No strong evidence of clinical pathogenicity is currently associated with this variant."
NoRecText == "No recommendation available due to missing variant details."
RiskTexts == {HighText, ModerateText, LowText}

\* (clin_sig or ""): clin_sig is a string or None (a JSON null)
OrEmpty(o) == IF o = None \/ Val(o) = S_empty THEN S_empty ELSE Val(o)

get_recommendation_moderate_first(impact, clin_sig) ==
    LET cs == Lower(OrEmpty(clin_sig)) IN
    IF impact = S_MODERATE THEN ModerateText
    ELSE IF impact = S_HIGH \/ cs \in {S_pathogenic, S_likely_pathogenic} THEN HighText
    ELSE LowText

get_recommendation_no_lower(impact, clin_sig) ==
    LET cs == OrEmpty(clin_sig) IN
    IF impact = S_HIGH \/ cs \in {S_pathogenic, S_likely_pathogenic} THEN HighText
    ELSE IF impact = S_MODERATE THEN ModerateText
    ELSE LowText

get_recommendation(impact, clin_sig) ==
    LET cs == Lower(OrEmpty(clin_sig)) IN
    IF impact = S_HIGH \/ cs \in {S_pathogenic, S_likely_pathogenic} THEN HighText
    ELSE IF impact = S_MODERATE THEN ModerateText
    ELSE LowText

\* Line 78: variant = get_variant_info(rsid) if rsid else None
Truthy(id) == id # None /\ Val(id) # ""

ShouldFetch_always(id) == TRUE

ShouldFetch(id) == Truthy(id)

\* Lines 127-131: the box shown in the recommendation section and its text
recommendation_display_default_low(v) ==
    IF v # None
    THEN [box |-> "success", text |-> get_recommendation(Val(v).Impact, Val(v).ClinSig)]
    ELSE [box |-> "success", text |-> get_recommendation(S_Unknown, None)]

recommendation_display(v) ==
    IF v # None
    THEN [box |-> "success", text |-> get_recommendation(Val(v).Impact, Val(v).ClinSig)]
    ELSE [box |-> "info", text |-> NoRecText]

-----------------------------------------------------------------------------
(* The memoisation of map_to_rsid: line 44.  An entry is kept for the life  *)
(* of the process; a call that raises stores nothing.                      *)

CacheKey(chrom, pos) == <<chrom, pos>>

CacheHit_never(c, key) == FALSE

CacheHit(c, key) == \E e \in c : e.key = key

CacheValue(c, key) == (CHOOSE e \in c : e.key = key).value

CacheStore_successes_only(c, key, value) ==
    IF value = None THEN c ELSE c \cup {[key |-> key, value |-> value]}

CacheStore(c, key, value) == c \cup {[key |-> key, value |-> value]}

\* Number of lookup GETs issued for a key since the process started
GetCount(g, key) == IF \E e \in g : e.key = key THEN (CHOOSE e \in g : e.key = key).n ELSE 0

CountGet(g, key) ==
    {e \in g : e.key # key} \cup {[key |-> key, n |-> GetCount(g, key) + 1]}

-----------------------------------------------------------------------------
(* Responses of the annotation service *)

FullTc == Tc(Some("BRCA2"), Some(S_HIGH), Some(<<"missense_variant">>))

\* What the service may answer during a script run
VepResponses ==
    { Exc("Timeout"),
      Http(404, None),
      Http(200, Some(Arr(<<VepItem(None, None)>>))),
      Http(200, Some(Arr(<<VepItem(Some(<<>>), None)>>))),
      Http(200, Some(Arr(<<VepItem(Some(<<FullTc>>), Some(<<Some(S_pathogenic)>>))>>))) }

TcDomain ==
    { Tc(g, i, t) : g \in Opt({"BRCA2"}),
                    i \in Opt({S_HIGH, S_MODERATE, S_LOW, Lower(S_HIGH)}),
                    t \in Opt({<<>>, <<"missense_variant">>,
                               <<"intron_variant", "nc_transcript_variant">>}) }

TcLists ==
    {None, Some(<<>>), Some(<<EmptyTc, FullTc>>)} \cup {Some(<<tc>>) : tc \in TcDomain}

CsLists ==
    {None, Some(<<>>), Some(<<None>>), Some(<<Some(S_benign), Some(S_pathogenic)>>)} \cup
    { Some(<<Some(c)>>) :
        c \in {S_pathogenic, Capitalize(S_pathogenic), S_likely_pathogenic, S_benign} }

\* Every shape of answer get_variant_info distinguishes
VepResponsesAll ==
    { Exc("ConnectionError"), Exc("Timeout"),
      Http(404, None), Http(500, None),
      Http(500, Some(Arr(<<VepItem(Some(<<FullTc>>), None)>>))),
      Http(200, None), Http(200, Some(Arr(<<>>))), Http(200, Some(Obj)) } \cup
    { Http(200, Some(Arr(<<VepItem(tcs, cs)>>))) : tcs \in TcLists, cs \in CsLists }

FnIds == {"rs1", "rs2"}

CaseVariants(s) == {s, Lower(s), Upper(s), Capitalize(s)}

ImpactInputs ==
    UNION { CaseVariants(s) : s \in {S_HIGH, S_MODERATE, S_LOW, S_MODIFIER, S_Unknown} }

ClinSigInputs ==
    {None, Some(S_empty)} \cup
    { Some(v) : v \in UNION { CaseVariants(s) :
                  s \in {S_pathogenic, S_likely_pathogenic, S_benign, S_Not_reported} } }

-----------------------------------------------------------------------------
(* The script run *)

NoCalls == [resolve |-> 0, lookup_gets |-> 0, fetch |-> 0, vep_gets |-> 0]

\* A script run starts with none of the script's names bound
RunCleared ==
    /\ df' = <<>>
    /\ sample' = None
    /\ X' = <<>>
    /\ pred_score' = None
    /\ risk_label' = ""
    /\ rsid' = None
    /\ variant' = None
    /\ rec_box' = ""
    /\ recommendation' = ""
    /\ calls' = NoCalls
    /\ steps' = <<>>
    /\ last_lookup' = None
    /\ last_vep' = None

Init ==
    /\ pc = "load"
    /\ file \in Files
    /\ model \in Models
    /\ df = <<>>
    /\ sample_idx = 0
    /\ sample = None
    /\ X = <<>>
    /\ pred_score = None
    /\ risk_label = ""
    /\ rsid = None
    /\ variant = None
    /\ rec_box = ""
    /\ recommendation = ""
    /\ cache = {}
    /\ runs = 1
    /\ calls = NoCalls
    /\ steps = <<>>
    /\ gets = {}
    /\ firstRes = {}
    /\ firstShown = {}
    /\ last_lookup = None
    /\ last_vep = None

\* Lines 7-9
Load ==
    /\ pc = "load"
    /\ df' = dropna(file, DropSubset)
    /\ pc' = "input"
    /\ UNCHANGED <<file, model, sample_idx, sample, X, pred_score, risk_label, rsid,
                   variant, rec_box, recommendation, cache, runs, calls, steps, gets,
                   firstRes, firstShown, last_lookup, last_vep>>

\* Lines 20-28.  number_input rejects max_value < min_value, which stops the run.
Select ==
    /\ pc = "input"
    /\ IF Len(df) = 0
       THEN pc' = "stopped" /\ sample' = sample
       ELSE pc' = "predict" /\ sample' = Some(df[sample_idx + 1])
    /\ UNCHANGED <<file, model, df, sample_idx, X, pred_score, risk_label, rsid,
                   variant, rec_box, recommendation, cache, runs, calls, steps, gets,
                   firstRes, firstShown, last_lookup, last_vep>>

\* Lines 31-41
Predict ==
    /\ pc = "predict"
    /\ X' = Features(Val(sample))
    /\ steps' = Append(steps, "predict")
    /\ LET out == predict(model, X') IN
       IF out.raised
       THEN pc' = "stopped" /\ UNCHANGED <<pred_score, risk_label>>
       ELSE /\ pc' = "resolve"
            /\ pred_score' = out.value
            /\ risk_label' = label_risk(Val(out.value))
    /\ UNCHANGED <<file, model, df, sample_idx, sample, rsid, variant, rec_box,
                   recommendation, cache, runs, calls, gets, firstRes, firstShown,
                   last_lookup, last_vep>>

\* Line 56: the memoised call of map_to_rsid
Resolve ==
    /\ pc = "resolve"
    /\ steps' = Append(steps, "resolve")
    /\ LET chrom == Val(sample)["Chromosome"]
           pos   == Val(sample)["Positionb"]
           key   == CacheKey(chrom, pos)
       IN IF CacheHit(cache, key)
          THEN /\ rsid' = CacheValue(cache, key)
               /\ calls' = [calls EXCEPT !.resolve = @ + 1]
               /\ pc' = "fetch"
               /\ UNCHANGED <<cache, gets, firstRes, last_lookup>>
          ELSE IF UrlRaises(chrom, pos)
          THEN /\ pc' = "stopped"
               /\ calls' = [calls EXCEPT !.resolve = @ + 1]
               /\ UNCHANGED <<rsid, cache, gets, firstRes, last_lookup>>
          ELSE \E resp \in LookupResponses :
               LET out == map_to_rsid(chrom, pos, resp) IN
               /\ calls' = [calls EXCEPT !.resolve = @ + 1, !.lookup_gets = @ + 1]
               /\ gets' = CountGet(gets, key)
               /\ last_lookup' = Some(resp)
               /\ IF out.raised
                  THEN pc' = "stopped" /\ UNCHANGED <<rsid, cache, firstRes>>
                  ELSE /\ pc' = "fetch"
                       /\ rsid' = out.value
                       /\ cache' = CacheStore(cache, key, out.value)
                       /\ firstRes' = IF \E e \in firstRes : e.key = key
                                      THEN firstRes
                                      ELSE firstRes \cup {[key |-> key, value |-> out.value]}
    /\ UNCHANGED <<file, model, df, sample_idx, sample, X, pred_score, risk_label,
                   variant, rec_box, recommendation, runs, firstShown, last_vep>>

\* Line 78
Fetch ==
    /\ pc = "fetch"
    /\ pc' = "display"
    /\ IF ShouldFetch(rsid)
       THEN \E resp \in VepResponses :
            LET out == get_variant_info(rsid, resp) IN
            /\ variant' = out.value
            /\ calls' = [calls EXCEPT !.fetch = @ + 1, !.vep_gets = @ + 1]
            /\ steps' = Append(steps, "fetch")
            /\ last_vep' = Some(resp)
       ELSE /\ variant' = None
            /\ UNCHANGED <<calls, steps, last_vep>>
    /\ UNCHANGED <<file, model, df, sample_idx, sample, X, pred_score, risk_label, rsid,
                   rec_box, recommendation, cache, runs, gets, firstRes, firstShown,
                   last_lookup>>

\* What the page shows for the selection once the run is complete
Shown(x, score, label, id, v, box, text) ==
    [X |-> x, pred_score |-> score, risk_label |-> label, rsid |-> id,
     variant |-> v, rec_box |-> box, recommendation |-> text]

\* Lines 81-131
Display ==
    /\ pc = "display"
    /\ pc' = "waiting"
    /\ steps' = Append(steps, "display")
    /\ LET rec == recommendation_display(variant) IN
       /\ rec_box' = rec.box
       /\ recommendation' = rec.text
       /\ firstShown' =
            IF \E e \in firstShown : e.fields = Val(sample)
            THEN firstShown
            ELSE firstShown \cup
                 {[fields |-> Val(sample),
                   shown |-> Shown(X, pred_score, risk_label, rsid, variant,
                                   rec.box, rec.text)]}
    /\ UNCHANGED <<file, model, df, sample_idx, sample, X, pred_score, risk_label, rsid,
                   variant, cache, runs, calls, gets, firstRes, last_lookup, last_vep>>

\* The user sets the index (or reruns the page): the script starts again.
Rerun ==
    /\ pc \in {"waiting", "stopped"}
    /\ runs < MaxSelections
    /\ \E i \in 0..(IF Len(df) = 0 THEN 0 ELSE Len(df) - 1) : sample_idx' = i
    /\ runs' = runs + 1
    /\ pc' = "load"
    /\ RunCleared
    /\ UNCHANGED <<file, model, cache, gets, firstRes, firstShown>>

Next == Load \/ Select \/ Predict \/ Resolve \/ Fetch \/ Display \/ Rerun

Spec == Init /\ [][Next]_vars

-----------------------------------------------------------------------------
(* The three functions of the script applied to inputs of their own: each   *)
(* action calls one function and leaves its arguments and its result in    *)
(* the script's names.                                                     *)

InitFn ==
    /\ pc = "fn"
    /\ file = <<>>
    /\ model = [intercept |-> 0, nan_ok |-> FALSE]
    /\ df = <<>>
    /\ sample_idx = 0
    /\ sample = None
    /\ X = <<>>
    /\ pred_score = None
    /\ risk_label = ""
    /\ rsid = None
    /\ variant = None
    /\ rec_box = ""
    /\ recommendation = ""
    /\ cache = {}
    /\ runs = 1
    /\ calls = NoCalls
    /\ steps = <<>>
    /\ gets = {}
    /\ firstRes = {}
    /\ firstShown = {}
    /\ last_lookup = None
    /\ last_vep = None

FnFrame ==
    /\ pc' = "returned"
    /\ UNCHANGED <<file, model, df, sample_idx, sample, X, cache, runs, calls, gets,
                firstRes, firstShown, last_lookup>>

\* label_risk(score), lines 34-41
FnLabelRisk ==
    /\ pc = "fn"
    /\ \E s \in (0 - MaxScore)..MaxScore :
           /\ pred_score' = Some(s)
           /\ risk_label' = label_risk(s)
    /\ steps' = <<"label_risk">>
    /\ rsid' = None /\ variant' = None /\ last_vep' = None
    /\ rec_box' = "" /\ recommendation' = ""
    /\ FnFrame

\* get_variant_info(rsid), lines 59-76
FnGetVariantInfo ==
    /\ pc = "fn"
    /\ \E id \in FnIds, resp \in VepResponsesAll :
           /\ rsid' = Some(id)
           /\ last_vep' = Some(resp)
           /\ variant' = get_variant_info(Some(id), resp).value
    /\ steps' = <<"get_variant_info">>
    /\ pred_score' = None /\ risk_label' = ""
    /\ rec_box' = "" /\ recommendation' = ""
    /\ FnFrame

\* get_recommendation(impact, clin_sig), lines 107-128
FnGetRecommendation ==
    /\ pc = "fn"
    /\ \E impact \in ImpactInputs, clin_sig \in ClinSigInputs :
           /\ variant' = Some([rsID |-> "rs1", Gene |-> "Unknown", Impact |-> impact,
                               Effect |-> "Unknown", ClinSig |-> clin_sig])
           /\ recommendation' = get_recommendation(impact, clin_sig)
    /\ rec_box' = "success"
    /\ steps' = <<"get_recommendation">>
    /\ pred_score' = None /\ risk_label' = ""
    /\ rsid' = None /\ last_vep' = None
    /\ FnFrame

NextFn == FnLabelRisk \/ FnGetVariantInfo \/ FnGetRecommendation

SpecFn == InitFn /\ [][NextFn]_vars

-----------------------------------------------------------------------------
(* Properties *)

\* A script run has reached the end of the page
Displayed == pc = "waiting"

\* C1: label_risk(s) is High iff s >= 0.01, Low iff s <= 0 and Moderate iff
\* 0 < s < 0.01; the boundaries are exact.
C1_LabelRisk ==
    (pc = "returned" /\ pred_score # None) =>
        LET s == Val(pred_score) IN
        /\ risk_label \in {"High", "Moderate", "Low"}
        /\ (risk_label = "High") <=> (s >= HighThreshold)
        /\ (risk_label = "Low") <=> (s <= 0)
        /\ (risk_label = "Moderate") <=> (0 < s /\ s < HighThreshold)

\* label_risk was applied to the score 0.01 itself
C1_Witness ==
    pc = "returned" /\ pred_score = Some(HighThreshold) /\ risk_label = "High"

\* C2: get_recommendation is a first-match-wins table: the high-risk text when
\* impact is HIGH or the clinical significance is pathogenic or
\* likely_pathogenic, whatever the other argument; otherwise the moderate text
\* when impact is MODERATE; otherwise the low-risk text.
C2_DecisionTable ==
    (pc = "returned" /\ rec_box = "success") =>
        LET impact == Val(variant).Impact
            sig    == Val(variant).ClinSig
            patho  == sig # None /\ Lower(Val(sig)) \in {S_pathogenic, S_likely_pathogenic}
        IN /\ (impact = S_HIGH => recommendation = HighText)
           /\ (patho => recommendation = HighText)
           /\ (impact # S_HIGH /\ ~patho /\ impact = S_MODERATE =>
                  recommendation = ModerateText)
           /\ (impact # S_HIGH /\ ~patho /\ impact # S_MODERATE =>
                  recommendation = LowText)

\* get_recommendation("MODERATE", "pathogenic") returned the high-risk text
C2_Witness ==
    /\ pc = "returned" /\ rec_box = "success"
    /\ Val(variant).Impact = S_MODERATE
    /\ Val(variant).ClinSig = Some(S_pathogenic)
    /\ recommendation = HighText

\* C3 as stated: changing the letter case of impact or of clin_sig never
\* changes the text get_recommendation returns.
C3_CaseInsensitive ==
    (pc = "returned" /\ rec_box = "success") =>
        LET impact == Val(variant).Impact
            sig    == Val(variant).ClinSig
        IN /\ \A i2 \in CaseVariants(impact) :
                  get_recommendation(i2, sig) = recommendation
           /\ sig # None =>
                  \A c2 \in CaseVariants(Val(sig)) :
                      get_recommendation(impact, Some(c2)) = recommendation

\* C3 amended: changing the letter case of clin_sig never changes the text
\* returned (impact is compared as given).
C3_ClinSigCaseInsensitive ==
    (pc = "returned" /\ rec_box = "success" /\ Val(variant).ClinSig # None) =>
        \A c2 \in CaseVariants(Val(Val(variant).ClinSig)) :
            get_recommendation(Val(variant).Impact, Some(c2)) = recommendation

\* get_recommendation was given "Pathogenic" with an impact other than HIGH
C3_Witness ==
    /\ pc = "returned" /\ rec_box = "success"
    /\ Val(variant).Impact = S_LOW
    /\ Val(variant).ClinSig = Some(Capitalize(S_pathogenic))
    /\ recommendation = HighText

\* The cache key of the selected record
SampleKey == CacheKey(Val(sample)["Chromosome"], Val(sample)["Positionb"])

\* map_to_rsid has returned in this run
Resolved == pc \in {"fetch", "display", "waiting"}

\* C4: map_to_rsid issues at most one network call per distinct (chromosome,
\* position); a later call with the same arguments returns what the first call
\* returned, an identifier or None.
C4_OneLookupPerKey ==
    /\ \A e \in gets : e.n <= 1
    /\ Resolved => \E e \in firstRes : e.key = SampleKey /\ e.value = rsid

\* A second selection of coordinates whose first lookup failed was served from
\* the cache: no GET in this run, and the result is None again
C4_Witness ==
    /\ pc = "fetch" /\ runs = 2
    /\ calls.resolve = 1 /\ calls.lookup_gets = 0
    /\ GetCount(gets, SampleKey) = 1
    /\ rsid = None

\* The coordinate lookup gave no usable identifier
LookupFailed(resp) ==
    \/ resp.exc # ""
    \/ resp.status # 200
    \/ resp.json = None
    \/ Val(resp.json).type # "array"
    \/ Val(resp.json).items = <<>>
    \/ Val(resp.json).items[1].id = None

\* The annotation request failed
VepFailed(resp) == resp.exc # "" \/ resp.status # 200

\* C5: neither lookup raises.  map_to_rsid returns None on a non-200 status, an
\* empty array, a body without a first id, a network error or a timeout;
\* get_variant_info returns None on a non-200 status or an error; the run goes
\* on to the display step with the absence value.
C5_LookupsNeverRaise ==
    /\ last_lookup # None => pc # "stopped"
    /\ last_vep # None => pc # "stopped"
    /\ (last_lookup # None /\ LookupFailed(Val(last_lookup))) =>
           /\ rsid = None
           /\ pc \in {"display", "waiting"} => variant = None
           /\ Displayed => rec_box = "info"
    /\ (last_vep # None /\ VepFailed(Val(last_vep))) =>
           /\ pc \in {"display", "waiting"}
           /\ variant = None
           /\ Displayed => rec_box = "info"

\* The coordinate lookup timed out and the run reached the end of the page
C5_Witness ==
    /\ Displayed
    /\ last_lookup = Some(Exc("Timeout"))
    /\ rsid = None
    /\ rec_box = "info"

\* C6: on a 200 answer get_variant_info returns a record even if fields are
\* missing: an empty or absent transcript-consequence list gives Gene, Impact
\* and Effect "Unknown", no clinical-significance entry gives "Not reported",
\* and rsID is the identifier passed in.
C6_AnnotationDefaults ==
    (/\ pc = "returned" /\ last_vep # None
     /\ Val(last_vep).exc = "" /\ Val(last_vep).status = 200
     /\ Val(last_vep).json # None
     /\ Val(Val(last_vep).json).type = "array"
     /\ Val(Val(last_vep).json).items # <<>>) =>
        LET item == Val(Val(last_vep).json).items[1] IN
        /\ variant # None
        /\ Val(variant).rsID = Val(rsid)
        /\ item.transcript_consequences \in {None, Some(<<>>)} =>
               /\ Val(variant).Gene = "Unknown"
               /\ Val(variant).Impact = S_Unknown
               /\ Val(variant).Effect = "Unknown"
        /\ item.clinical_significance \in {None, Some(<<>>)} =>
               Val(variant).ClinSig = Some(S_Not_reported)

\* C7: with no annotation (no identifier, or the fetch returned None) the page
\* shows the "no recommendation" box and none of the three risk texts; a risk
\* text is shown only when an annotation record exists.
C7_NoRecommendationWithoutAnnotation ==
    Displayed =>
        /\ ~Truthy(rsid) => variant = None
        /\ variant = None =>
               /\ rec_box = "info"
               /\ recommendation = NoRecText
               /\ recommendation \notin RiskTexts
        /\ (rec_box = "success" \/ recommendation \in RiskTexts) => variant # None

\* An identifier was found, the fetch returned None, the page shows the box
C7_Witness ==
    /\ Displayed
    /\ Truthy(rsid)
    /\ calls.fetch = 1
    /\ variant = None
    /\ rec_box = "info"

\* C8: after loading, no row has a null in Chromosome, Position, allele
\* frequency, overall outcome, ER-positive or ER-negative, so every feature
\* vector passed to the predictor holds five non-null values.
C8_NoNullInRequiredColumns ==
    /\ \A i \in 1..Len(df) : \A c \in Columns : df[i][c] # None
    /\ \A i \in 1..Len(X) : X[i] # None

\* What the page shows now
ShownNow == Shown(X, pred_score, risk_label, rsid, variant, rec_box, recommendation)

\* C9 as stated: two selections of records with the same field values display
\* the same derived values (feature vector, score, label, identifier,
\* annotation, recommendation) whatever happened before.  Stated for records
\* without an empty cell.
C9_PureFunctionOfRecord ==
    (Displayed /\ \A c \in Columns : Val(sample)[c] # None) =>
        \A e \in firstShown : e.fields = Val(sample) => e.shown = ShownNow

\* C9 amended: two selections of records with the same field values display
\* the same feature vector, score, risk label and identifier, and the same
\* recommendation whenever they display the same annotation.
C9_DeterminedByRecordAndAnnotation ==
    Displayed =>
        \A e \in firstShown : e.fields = Val(sample) =>
            /\ e.shown.X = X
            /\ e.shown.pred_score = pred_score
            /\ e.shown.risk_label = risk_label
            /\ e.shown.rsid = rsid
            /\ e.shown.variant = variant =>
                   /\ e.shown.rec_box = rec_box
                   /\ e.shown.recommendation = recommendation

\* The same record was selected twice; the identifier came from the cache and
\* is the same, the annotation is not
C9_Witness ==
    /\ Displayed /\ runs = 2
    /\ calls.lookup_gets = 0
    /\ \E e \in firstShown :
           /\ e.fields = Val(sample)
           /\ e.shown.rsid = rsid /\ Truthy(rsid)
           /\ e.shown.variant # variant

IsPrefix(p, q) == Len(p) <= Len(q) /\ \A i \in 1..Len(p) : p[i] = q[i]

\* C10: in one selection the steps run in the order predict, resolve, fetch,
\* display; the resolver and the fetcher are each invoked at most once and
\* issue at most one GET; the fetcher runs only after the resolver returned an
\* identifier; a failed GET is not repeated.
C10_OrderNoRetry ==
    /\ \/ IsPrefix(steps, <<"predict", "resolve", "fetch", "display">>)
       \/ IsPrefix(steps, <<"predict", "resolve", "display">>)
    /\ calls.resolve <= 1 /\ calls.lookup_gets <= 1
    /\ calls.fetch <= 1 /\ calls.vep_gets <= 1
    /\ calls.fetch = 1 => (Resolved /\ Truthy(rsid))
    /\ Displayed => calls.resolve = 1
    /\ (Displayed /\ ~Truthy(rsid)) => (calls.fetch = 0 /\ calls.vep_gets = 0)

\* Both GETs were issued once, the second failed, and the page was displayed
C10_Witness ==
    /\ Displayed
    /\ steps = <<"predict", "resolve", "fetch", "display">>
    /\ calls = [resolve |-> 1, lookup_gets |-> 1, fetch |-> 1, vep_gets |-> 1]
    /\ last_vep = Some(Exc("Timeout"))
    /\ variant = None

====
